---- MODULE Spec2Model ----
(***************************************************************************)
(* Model of src/src/group/prop.js: the Prop entity (a validated name plus  *)
(* an owned Keyframes collection) and the bubbling of the collection's     *)
(* events onto the Prop.                                                   *)
(*                                                                         *)
(* prop.js imports three collaborators whose code is not part of the       *)
(* sources at hand: the emitChange decorator (utils/emitter), the events   *)
(* helpers clearEvents / bubbleEvent (utils) and the Keyframes collection. *)
(* They are modelled from the specification text (sections 3, 4.1, 4.3),   *)
(* and so is the parent list that links Props (sections 3, 5).             *)
(***************************************************************************)
EXTENDS Naturals, Sequences, FiniteSets, Bags

\* ------------------------------------------------------------------ bounds

NumColls    == 2    \* Keyframes instances that may be created
MaxNameLen  == 1    \* longest string offered as a name
MaxTime     == 1    \* time keys 1..MaxTime of a keyframe
MaxKeys     == 2    \* most keys of an object given to Prop.fromObject

\* Two Props, so that one may be handed the collection of the other.
Props == {1, 2}
Colls == 1..NumColls
Times == 1..MaxTime
NoColl == 0         \* this._keyframes = null (line 41)

\* ------------------------------------------------------------- JS values

\* A string is a sequence of characters over a small alphabet holding a
\* letter and a digit.
Chars  == {"x", "1"}
Digits == {"0", "1", "2", "3", "4", "5", "6", "7", "8", "9"}

RECURSIVE StrsOfLen(_)
StrsOfLen(n) ==
  IF n = 0 THEN {<<>>}
  ELSE {Append(s, c) : s \in StrsOfLen(n - 1), c \in Chars}

Strs == UNION {StrsOfLen(n) : n \in 0..MaxNameLen}

\* A JS value: its typeof tag and its string coercion String(val).
Str(s)    == [type |-> "string", str |-> s]
Null      == [type |-> "null", str |-> <<"n">>]
Undefined == [type |-> "undefined", str |-> <<"u">>]
Num1      == [type |-> "number", str |-> <<"1">>]
Arr       == [type |-> "object", str |-> <<"x">>]     \* ['x']: String(['x']) = "x"

NameInputs == {Str(s) : s \in Strs} \cup {Null, Undefined, Num1, Arr}

\* /\d+/.test(val): the string coercion of val holds a digit (line 36)
HasDigit(s) == \E i \in DOMAIN s : s[i] \in Digits

\* name || null (line 58): the falsy values become null
Falsy(v) == \/ v.type \in {"null", "undefined"}
            \/ v.type = "string" /\ v.str = <<>>

OrNull(v) == IF Falsy(v) THEN Null ELSE v

\* Mutants of the rule list: the digit rule left out; a third rule that
\* refuses the empty string.
NameValidatorsNoDigitRule(val) ==
  << val.type = "string" >>

NameValidatorsNonEmpty(val) ==
  << val.type = "string",
     ~HasDigit(val.str),
     val.str # <<>> >>

\* The rule list given to @emitChange('name', ...): the outcome of each
\* validator on val, in order (lines 34-37).
NameValidators(val) ==
  << val.type = "string",
     ~HasDigit(val.str) >>

\* @emitChange() on the keyframes setter has no rule (line 104)
KeyframesValidators(val) == << >>

\* The wrapper runs every rule before the setter; one failing rule aborts
\* the assignment with a failure (spec 4.1 (a), (b)).
Passes(results) == \A i \in DOMAIN results : results[i]

\* ------------------------------------------------------------ event names

KeyframesEvents ==
  {"change", "change:list", "change:time", "change:value", "change:ease",
   "add", "remove"}

\* Prop.Events (lines 204-215)
PropEvents ==
  {"change", "change:name", "change:keyframes", "change:keyframes:list",
   "change:keyframe", "change:keyframe:time", "change:keyframe:value",
   "change:keyframe:ease", "add:keyframe", "remove:keyframe"}

\* Mutant of the table: the targets of change:time and change:value swapped.
BubbleTableSwapped ==
  { [on |-> "change:list",  emit |-> "change:keyframes:list"],
    [on |-> "change",       emit |-> "change:keyframe"],
    [on |-> "change:time",  emit |-> "change:keyframe:value"],
    [on |-> "change:value", emit |-> "change:keyframe:time"],
    [on |-> "change:ease",  emit |-> "change:keyframe:ease"],
    [on |-> "add",          emit |-> "add:keyframe"],
    [on |-> "remove",       emit |-> "remove:keyframe"] }

\* The listeners setupBubbleEvents attaches (lines 127-133): on source
\* event `on`, bubbleEvent(emit, this) emits `emit` on the Prop.
BubbleTable ==
  { [on |-> "change:list",  emit |-> "change:keyframes:list"],
    [on |-> "change",       emit |-> "change:keyframe"],
    [on |-> "change:time",  emit |-> "change:keyframe:time"],
    [on |-> "change:value", emit |-> "change:keyframe:value"],
    [on |-> "change:ease",  emit |-> "change:keyframe:ease"],
    [on |-> "add",          emit |-> "add:keyframe"],
    [on |-> "remove",       emit |-> "remove:keyframe"] }

\* events.clearEvents(emitter, events): of a table of listeners (a bag of
\* records with the event each is attached `on`), those on other events.
clearEvents(listeners, events) ==
  LET keep == {l \in BagToSet(listeners) : l.on \notin events}
  IN  [l \in keep |-> listeners[l]]


\* ----------------------------------------------------- keyframe data

\* The raw form of a collection: a mapping from time keys to {value, ease}
\* (spec 3, "Keyframe collection").
KfVals == {[value |-> "10", ease |-> "null"]}

RawMappings == UNION {[T -> KfVals] : T \in SUBSET Times}

EmptyMapping == [t \in {} |-> CHOOSE v \in KfVals : TRUE]

\* What client code may give as keyframes: a Keyframes instance, raw data,
\* null or nothing (undefined).
KfInstance(c) == [kind |-> "instance",  inst |-> c, data |-> EmptyMapping]
KfRaw(d)      == [kind |-> "raw",       inst |-> NoColl, data |-> d]
KfNull        == [kind |-> "null",      inst |-> NoColl, data |-> EmptyMapping]
KfUndefined   == [kind |-> "undefined", inst |-> NoColl, data |-> EmptyMapping]

\* kf instanceof Keyframes (lines 54, 106)
IsKeyframes(kf) == kf.kind = "instance"

\* new Keyframes(data): the contents of the new collection; no data, null
\* or undefined give an empty collection (spec 3, 6).
NewKeyframesContent(kf) == IF kf.kind = "raw" THEN kf.data ELSE EmptyMapping

\* ------------------------------------------------------------- state

VARIABLES
  life,       \* per Prop: "none" (not constructed), "live", "destroyed"
              \* (destroy() was the last call on it) or "reused" (called
              \* again after destroy())
  name,       \* this._name
  keyframes,  \* this._keyframes: a Keyframes instance, or NoColl for null
  nColls,     \* the Keyframes instances created so far are 1..nColls
  content,    \* per Keyframes instance: its raw mapping
  lst,        \* lst[c][p]: the listeners Prop p attached to collection c,
              \* a bag of BubbleTable rows. The listeners on a collection
              \* are kept per Prop: what a Prop clears there are "this
              \* entity's subscriptions" (spec 4.2 step 2, 4.3, 4.6)
  own,        \* per Prop: the listeners client code attached to the Prop
              \* itself, a bag of [on |-> event]
  released,   \* per Prop: the collection its last keyframes assignment
              \* replaced by a different one (NoColl if none, or if the
              \* Prop has taken it back since)
  emitted,    \* per Prop: the events emitted on it by the call in progress
              \* or just returned, a bag of [evt, val, key]
  link,       \* per Prop: this._next, this._prev and this._list
  pc,         \* where the call in progress stands (JS runs one call at a
              \* time, to completion)
  lastOp      \* the call in progress or just returned, with its argument
              \* and what it found on entry

vars == <<life, name, keyframes, nColls, content, lst, own, released, emitted,
          link, pc, lastOp>>

Ev(e, v, k) == [evt |-> e, val |-> v, key |-> k]

NoEvents == [q \in Props |-> EmptyBag]

Idle == [step |-> "idle", p |-> 0, new |-> NoColl, notify |-> FALSE, ctor |-> FALSE]

Returned == [Idle EXCEPT !.step = "returned"]

NoObj == [isObject |-> FALSE, entries |-> <<>>]

\* The fields a Prop does not set: _next and _prev are not declared by the
\* class (undefined), _list is declared null (line 42).
Unlinked == [next |-> "undefined", prev |-> "undefined", list |-> "null"]

\* What a call gives back: nothing, an object, a boolean or a reference.
NoRet == [kind |-> "undefined", obj |-> NoObj, flag |-> FALSE, ref |-> ""]

\* The state of the Props and collections, as a call finds it.
Snapshot ==
  [name |-> name, keyframes |-> keyframes, nColls |-> nColls,
   content |-> content, lst |-> lst, own |-> own, link |-> link]

NoSnapshot ==
  [name |-> [p \in Props |-> Undefined],
   keyframes |-> [p \in Props |-> NoColl],
   nColls |-> 0,
   content |-> [c \in Colls |-> EmptyMapping],
   lst |-> [c \in Colls |-> [p \in Props |-> EmptyBag]],
   own |-> [p \in Props |-> EmptyBag],
   link |-> [p \in Props |-> Unlinked]]

\* The record of a call: o on Prop p with a name value, a keyframes input,
\* an object or a source event at a time key, how it ended ("no" failure,
\* a "validation" failure or a "malformed" input failure), what it
\* returned and the state it found on entry.
Op(o, p, v, kf, obj, threw) ==
  [op |-> o, p |-> p, val |-> v, kf |-> kf, obj |-> obj, threw |-> threw,
   event |-> "", time |-> 0,
   oldName |-> IF p \in Props THEN name[p] ELSE Undefined,
   oldKeyframes |-> IF p \in Props THEN keyframes[p] ELSE NoColl,
   ret |-> NoRet, pre |-> Snapshot]

NoOp ==
  [op |-> "none", p |-> 0, val |-> Undefined, kf |-> KfUndefined, obj |-> NoObj,
   threw |-> "no", event |-> "", time |-> 0, oldName |-> Undefined,
   oldKeyframes |-> NoColl, ret |-> NoRet, pre |-> NoSnapshot]

Init ==
  /\ life = [p \in Props |-> "none"]
  /\ name = [p \in Props |-> Undefined]
  /\ keyframes = [p \in Props |-> NoColl]
  /\ nColls = 0
  /\ content = [c \in Colls |-> EmptyMapping]
  /\ lst = [c \in Colls |-> [p \in Props |-> EmptyBag]]
  /\ own = [p \in Props |-> EmptyBag]
  /\ released = [p \in Props |-> NoColl]
  /\ emitted = NoEvents
  /\ link = [p \in Props |-> Unlinked]
  /\ pc = Idle
  /\ lastOp = NoOp

\* Any call on a Prop after destroy() ends the "destroyed" stage.
Touch(p) == [life EXCEPT ![p] = IF @ = "destroyed" THEN "reused" ELSE @]

\* The slot a new Prop goes to: the first free one.
Free(p) == life[p] = "none" /\ \A q \in Props : q < p => life[q] # "none"

\* The inputs client code can give as keyframes in the current state.
KfInputs ==
  {KfInstance(c) : c \in 1..nColls} \cup {KfRaw(d) : d \in RawMappings}
    \cup {KfNull, KfUndefined}

\* The call has returned and client code goes on.
Return ==
  /\ pc.step = "returned"
  /\ pc' = Idle
  /\ emitted' = NoEvents
  /\ lastOp' = NoOp
  /\ UNCHANGED <<life, name, keyframes, nColls, content, lst, own, released, link>>

\* ------------------------------------------------------ emitChange

\* What the wrapper emits once the wrapped setter has run: `change` and
\* `change:<field>` (spec 4.1 (c)).
ChangeEvents(fieldEvent, val, key) ==
  SetToBag({Ev("change", val, key), Ev(fieldEvent, val, key)})

\* prop.name = val, through @emitChange('name', null, rules) (lines 34-37)
SetName(p, val) ==
  /\ pc.step = "idle"
  /\ life[p] # "none"
  /\ life' = Touch(p)
  /\ IF Passes(NameValidators(val))
     THEN /\ name' = [name EXCEPT ![p] = val]
          /\ emitted' = [NoEvents EXCEPT ![p] = ChangeEvents("change:name", val, 0)]
          /\ lastOp' = Op("setName", p, val, KfUndefined, NoObj, "no")
     ELSE /\ name' = name
          /\ emitted' = NoEvents
          /\ lastOp' = Op("setName", p, val, KfUndefined, NoObj, "validation")
  /\ pc' = Returned
  /\ UNCHANGED <<keyframes, nColls, content, lst, own, released, link>>

\* --------------------------------------------------- keyframes setter

\* The listeners Prop q has on collection c for source event e run; each
\* emits its bubbled event on q, carrying the keyframe's time key t.
Bubbled(c, q, e, t) ==
  LET L == {l \in BagToSet(lst[c][q]) : l.on = e}
  IN  [x \in {Ev(l.emit, Null, t) : l \in L} |->
         CopiesIn([on |-> e, emit |-> x.evt], lst[c][q])]

\* Collection c raises source event e once for every time key in T.
RECURSIVE BubbledAll(_, _, _, _)
BubbledAll(c, q, e, T) ==
  IF T = {} THEN EmptyBag
  ELSE LET t == CHOOSE x \in T : TRUE
       IN  Bubbled(c, q, e, t) (+) BubbledAll(c, q, e, T \ {t})

\* Mutant of the coercion: null is let through (if (kf && !(kf instanceof ...))).
CoercedUnlessNull(kf) ==
  IF IsKeyframes(kf) THEN kf.inst
  ELSE IF kf.kind = "null" THEN NoColl ELSE nColls + 1

\* Lines 106-108 and 54-56: an instance is taken as it is; anything else
\* is wrapped in a new Keyframes, the next instance created.
Coerced(kf) == IF IsKeyframes(kf) THEN kf.inst ELSE nColls + 1

CanCoerce(kf) == IsKeyframes(kf) \/ nColls < NumColls

Allocate(kf) ==
  IF IsKeyframes(kf)
  THEN UNCHANGED <<nColls, content>>
  ELSE /\ nColls' = nColls + 1
       /\ content' = [content EXCEPT ![nColls + 1] = NewKeyframesContent(kf)]

\* Mutants of line 111: the call left out; the call given Prop.Events; the
\* call given a list without `remove`.
DetachOldSkipped(listeners) == listeners

DetachOldKeepsRemove(listeners) ==
  clearEvents(listeners, KeyframesEvents \ {"remove"})

DetachOldWrongList(listeners) == clearEvents(listeners, PropEvents)

\* Line 111: events.clearEvents(this._keyframes, Keyframes.Events)
DetachOld(listeners) == clearEvents(listeners, KeyframesEvents)

\* Mutant of line 125: the call left out.
DetachBeforeSetupSkipped(listeners) == listeners

\* Line 125: events.clearEvents(this._keyframes, Keyframes.Events)
DetachBeforeSetup(listeners) == clearEvents(listeners, KeyframesEvents)

\* Mutant of lines 127-133: the `remove` row left out.
AttachWithoutRemove(listeners) ==
  listeners (+) SetToBag({r \in BubbleTable : r.on # "remove"})

\* Lines 127-133: one this._keyframes.on(...) per row of the table
Attach(listeners) == listeners (+) SetToBag(BubbleTable)

\* Mutant of line 115: the assignment left out.
AdoptedKeepsOld(old, kf) == old

\* Line 115: this._keyframes = kf
Adopted(old, kf) == kf

\* prop.keyframes = kf, through @emitChange() (lines 104-108)
SetKeyframes(p, kf) ==
  /\ pc.step = "idle"
  /\ life[p] # "none"
  /\ CanCoerce(kf)
  /\ Passes(KeyframesValidators(kf))
  /\ Allocate(kf)
  /\ life' = Touch(p)
  /\ emitted' = NoEvents
  /\ lastOp' = Op("setKeyframes", p, Undefined, kf, NoObj, "no")
  /\ pc' = [step |-> "teardown", p |-> p, new |-> Coerced(kf),
            notify |-> TRUE, ctor |-> FALSE]
  /\ UNCHANGED <<name, keyframes, lst, own, released, link>>

\* Lines 110-111: the listeners on the collection owned so far are removed.
Teardown ==
  /\ pc.step = "teardown"
  /\ IF keyframes[pc.p] # NoColl
     THEN /\ lst' = [lst EXCEPT ![keyframes[pc.p]][pc.p] = DetachOld(@)]
          /\ pc' = [pc EXCEPT !.step = "clear"]
     ELSE /\ lst' = lst
          /\ pc' = [pc EXCEPT !.step = "adopt"]
  /\ UNCHANGED <<life, name, keyframes, nColls, content, own, released, emitted, lastOp, link>>

\* Mutant of line 112: the collection is not cleared when it is the one
\* being assigned.
ClearUnlessSame ==
  /\ pc.step = "clear"
  /\ LET c == keyframes[pc.p]
     IN  IF c = pc.new
         THEN UNCHANGED <<content, emitted>>
         ELSE /\ content' = [content EXCEPT ![c] = EmptyMapping]
              /\ emitted' = [q \in Props |->
                   emitted[q] (+) BubbledAll(c, q, "remove", DOMAIN content[c])]
  /\ pc' = [pc EXCEPT !.step = "adopt"]
  /\ UNCHANGED <<life, name, keyframes, nColls, lst, own, released, lastOp, link>>

\* Line 112: this._keyframes.clear(). The collection drops its keyframes
\* and raises `remove` for each; the listeners still attached to it run.
Clear ==
  /\ pc.step = "clear"
  /\ LET c == keyframes[pc.p]
     IN  /\ content' = [content EXCEPT ![c] = EmptyMapping]
         /\ emitted' = [q \in Props |->
              emitted[q] (+) BubbledAll(c, q, "remove", DOMAIN content[c])]
  /\ pc' = [pc EXCEPT !.step = "adopt"]
  /\ UNCHANGED <<life, name, keyframes, nColls, lst, own, released, lastOp, link>>

\* Line 115. With `track`, the collection given up is remembered.
Adopt(track) ==
  /\ pc.step = "adopt"
  /\ keyframes' = [keyframes EXCEPT ![pc.p] = Adopted(@, pc.new)]
  /\ released' = [released EXCEPT ![pc.p] =
       IF ~track THEN @
       ELSE IF keyframes[pc.p] \notin {NoColl, pc.new} THEN keyframes[pc.p]
       ELSE IF @ = pc.new THEN NoColl ELSE @]
  /\ pc' = [pc EXCEPT !.step = "setup"]
  /\ UNCHANGED <<life, name, nColls, content, lst, own, emitted, lastOp, link>>

\* After the listeners are set up: back to the wrapper of the keyframes
\* setter, or back to the caller of setupBubbleEvents().
AfterSetup == IF pc.notify THEN [pc EXCEPT !.step = "notify"] ELSE Returned

\* Lines 124-125
SetupClear ==
  /\ pc.step = "setup"
  /\ IF keyframes[pc.p] # NoColl
     THEN /\ lst' = [lst EXCEPT ![keyframes[pc.p]][pc.p] = DetachBeforeSetup(@)]
          /\ pc' = [pc EXCEPT !.step = "attach"]
     ELSE /\ lst' = lst
          /\ pc' = AfterSetup
  /\ UNCHANGED <<life, name, keyframes, nColls, content, own, released, emitted, lastOp, link>>

\* Lines 127-133
SetupAttach ==
  /\ pc.step = "attach"
  /\ lst' = [lst EXCEPT ![keyframes[pc.p]][pc.p] = Attach(@)]
  /\ pc' = AfterSetup
  /\ UNCHANGED <<life, name, keyframes, nColls, content, own, released, emitted, lastOp, link>>

\* The wrapper's events once the setter has returned (spec 4.1 (c), 4.2
\* step 5); a constructor returns its Prop here (line 61).
Notify ==
  /\ pc.step = "notify"
  /\ emitted' = [emitted EXCEPT ![pc.p] =
       @ (+) ChangeEvents("change:keyframes", Null, keyframes[pc.p])]
  /\ life' = IF pc.ctor THEN [life EXCEPT ![pc.p] = "live"] ELSE life
  /\ pc' = Returned
  /\ UNCHANGED <<name, keyframes, nColls, content, lst, own, released, lastOp, link>>

\* prop.setupBubbleEvents() called by client code (lines 123-135)
setupBubbleEvents(p) ==
  /\ pc.step = "idle"
  /\ life[p] # "none"
  /\ life' = Touch(p)
  /\ emitted' = NoEvents
  /\ lastOp' = Op("setupBubbleEvents", p, Undefined, KfUndefined, NoObj, "no")
  /\ pc' = [step |-> "setup", p |-> p, new |-> NoColl, notify |-> FALSE, ctor |-> FALSE]
  /\ UNCHANGED <<name, keyframes, nColls, content, lst, own, released, link>>

\* --------------------------------------------------------- constructor

\* Mutant of line 58: the line left out.
CtorNameAsGiven(val) == val

\* Line 58
CtorName(val) == OrNull(val)

\* new Prop(name, keyframes) into the free slot p (lines 50-61).
\* Object.assign sets name first, then keyframes, each through its setter.
\* When the name is refused no Prop results, and the Keyframes the
\* constructor may have created on line 50 or 55 is unreachable: it is not
\* counted among the instances.
Construct(p, val, kf, o, obj) ==
  /\ Free(p)
  /\ CanCoerce(kf)
  /\ IF Passes(NameValidators(CtorName(val)))
     THEN /\ Allocate(kf)
          /\ name' = [name EXCEPT ![p] = CtorName(val)]
          /\ emitted' = [NoEvents EXCEPT ![p] =
               ChangeEvents("change:name", CtorName(val), 0)]
          /\ lastOp' = Op(o, p, val, kf, obj, "no")
          /\ pc' = [step |-> "teardown", p |-> p, new |-> Coerced(kf),
                    notify |-> TRUE, ctor |-> TRUE]
     ELSE /\ emitted' = NoEvents
          /\ lastOp' = Op(o, p, val, kf, obj, "validation")
          /\ pc' = Returned
          /\ UNCHANGED <<name, nColls, content>>
  /\ UNCHANGED <<life, keyframes, lst, own, released, link>>

New(p, val, kf) ==
  /\ pc.step = "idle"
  /\ Construct(p, val, kf, "new", NoObj)

\* ---------------------------------------------------------- destroy

\* Mutant of line 167: the call left out.
DestroyBubblingSkipped(listeners) == listeners

\* Line 167
DestroyBubbling(listeners) == clearEvents(listeners, KeyframesEvents)

\* Line 168
DestroyOwn(listeners) == clearEvents(listeners, PropEvents)

\* Mutant of destroy(): the Prop also takes itself off the list.
destroyUnlinking(p) ==
  /\ pc.step = "idle"
  /\ life[p] # "none"
  /\ lst' = [lst EXCEPT ![keyframes[p]][p] = DestroyBubbling(@)]
  /\ own' = [own EXCEPT ![p] = DestroyOwn(@)]
  /\ link' = [link EXCEPT ![p] = [next |-> "null", prev |-> "null", list |-> "null"]]
  /\ life' = [life EXCEPT ![p] = "destroyed"]
  /\ emitted' = NoEvents
  /\ lastOp' = Op("destroy", p, Undefined, KfUndefined, NoObj, "no")
  /\ pc' = Returned
  /\ UNCHANGED <<name, keyframes, nColls, content, released>>

\* prop.destroy() (lines 166-169)
destroy(p) ==
  /\ pc.step = "idle"
  /\ life[p] # "none"
  /\ lst' = [lst EXCEPT ![keyframes[p]][p] = DestroyBubbling(@)]
  /\ own' = [own EXCEPT ![p] = DestroyOwn(@)]
  /\ life' = [life EXCEPT ![p] = "destroyed"]
  /\ emitted' = NoEvents
  /\ lastOp' = Op("destroy", p, Undefined, KfUndefined, NoObj, "no")
  /\ pc' = Returned
  /\ UNCHANGED <<name, keyframes, nColls, content, released, link>>


\* ------------------------------------------------------- serialization

\* A mapping with the one entry key: value, a mapping of raw keyframe data.
SingleKey(key, data) ==
  [isObject |-> TRUE,
   entries |-> <<[key |-> key, val |-> [isObject |-> TRUE, data |-> data]]>>]

\* The property key a value gives in { [val]: ... }: its string coercion.
ToPropertyKey(val) == val.str

\* keyframes.toObject(): the raw mapping of the collection (spec 3, 6)
KeyframesToObject(c) == content[c]

\* Mutant of line 145: the key written without brackets, { name: keyframes }.
ToObjectLiteralKey(p) ==
  SingleKey(<<"n", "a", "m", "e">>,
            IF keyframes[p] # NoColl THEN KeyframesToObject(keyframes[p])
            ELSE EmptyMapping)

\* The object prop.toObject() returns (lines 144-145)
ToObject(p) ==
  SingleKey(ToPropertyKey(name[p]),
            IF keyframes[p] # NoColl THEN KeyframesToObject(keyframes[p])
            ELSE EmptyMapping)

\* Mutant of toObject(): the collection is emptied once it is serialized.
toObjectClearing(p) ==
  /\ pc.step = "idle"
  /\ life[p] # "none"
  /\ content' = [content EXCEPT ![keyframes[p]] = EmptyMapping]
  /\ emitted' = NoEvents
  /\ lastOp' = [Op("toObject", p, Undefined, KfUndefined, NoObj, "no") EXCEPT
                  !.ret = [NoRet EXCEPT !.kind = "object", !.obj = ToObject(p)]]
  /\ pc' = Returned
  /\ UNCHANGED <<life, name, keyframes, nColls, lst, own, released, link>>

\* prop.toObject() (lines 143-146)
toObject(p) ==
  /\ pc.step = "idle"
  /\ life[p] # "none"
  /\ emitted' = NoEvents
  /\ lastOp' = [Op("toObject", p, Undefined, KfUndefined, NoObj, "no") EXCEPT
                  !.ret = [NoRet EXCEPT !.kind = "object", !.obj = ToObject(p)]]
  /\ pc' = Returned
  /\ UNCHANGED <<life, name, keyframes, nColls, content, lst, own, released, link>>

\* ------------------------------------------------- CSS transform names

opacity == <<"o", "p", "a", "c", "i", "t", "y">>

\* Mutant of the list: scaleX and scaleY left out.
TransformNamesWithoutScaleAxes ==
  { <<"x">>, <<"y">>, <<"z">>,
    <<"r", "o", "t", "a", "t", "i", "o", "n">>,
    <<"r", "o", "t", "a", "t", "i", "o", "n", "Z">>,
    <<"r", "o", "t", "a", "t", "i", "o", "n", "X">>,
    <<"r", "o", "t", "a", "t", "i", "o", "n", "Y">>,
    <<"s", "k", "e", "w", "X">>, <<"s", "k", "e", "w", "Y">>,
    <<"s", "c", "a", "l", "e">> }

\* The names listed by isCSSTransform (lines 154-159)
TransformNames ==
  { <<"x">>, <<"y">>, <<"z">>,
    <<"r", "o", "t", "a", "t", "i", "o", "n">>,
    <<"r", "o", "t", "a", "t", "i", "o", "n", "Z">>,
    <<"r", "o", "t", "a", "t", "i", "o", "n", "X">>,
    <<"r", "o", "t", "a", "t", "i", "o", "n", "Y">>,
    <<"s", "k", "e", "w", "X">>, <<"s", "k", "e", "w", "Y">>,
    <<"s", "c", "a", "l", "e">>,
    <<"s", "c", "a", "l", "e", "X">>, <<"s", "c", "a", "l", "e", "Y">> }

\* [...].includes(this.name): the name is one of the strings listed
IsCSSTransform(p) ==
  /\ name[p].type = "string"
  /\ name[p].str \in TransformNames

\* prop.isCSSTransform() (lines 153-160)
isCSSTransform(p) ==
  /\ pc.step = "idle"
  /\ life[p] # "none"
  /\ emitted' = NoEvents
  /\ lastOp' = [Op("isCSSTransform", p, Undefined, KfUndefined, NoObj, "no") EXCEPT
                  !.ret = [NoRet EXCEPT !.kind = "boolean", !.flag = IsCSSTransform(p)]]
  /\ pc' = Returned
  /\ UNCHANGED <<life, name, keyframes, nColls, content, lst, own, released, link>>

\* ------------------------------------------------------------- linkage

\* What the parent list may write into a Prop: the list itself, and as
\* neighbours another Prop or null.
Linkages == [next : {"null", "prop"}, prev : {"null", "prop"}, list : {"props"}]

\* The parent list sets _next, _prev and _list of Prop p (spec 3, 5).
Link(p, l) ==
  /\ pc.step = "idle"
  /\ life[p] # "none"
  /\ link[p] # l
  /\ link' = [link EXCEPT ![p] = l]
  /\ emitted' = NoEvents
  /\ lastOp' = Op("link", p, Undefined, KfUndefined, NoObj, "no")
  /\ pc' = Returned
  /\ UNCHANGED <<life, name, keyframes, nColls, content, lst, own, released>>

\* A call that gives back a reference and changes nothing.
Gives(o, p, ref) ==
  /\ pc.step = "idle"
  /\ life[p] # "none"
  /\ emitted' = NoEvents
  /\ lastOp' = [Op(o, p, Undefined, KfUndefined, NoObj, "no") EXCEPT
                  !.ret = [NoRet EXCEPT !.kind = "reference", !.ref = ref]]
  /\ pc' = Returned
  /\ UNCHANGED <<life, name, keyframes, nColls, content, lst, own, released, link>>

\* prop.next() (lines 68-70)
next(p) == Gives("next", p, link[p].next)

\* prop.prev() (lines 77-79)
prev(p) == Gives("prev", p, link[p].prev)

\* prop.list (lines 86-88)
list(p) == Gives("list", p, link[p].list)

\* ------------------------------------------------------- Prop.fromObject

\* The objects given to Prop.fromObject: something that is no mapping, or
\* a mapping, its entries in the order of Object.keys. A value is a mapping
\* of raw keyframe data or something else (a string, say); the values after
\* the first are the empty mapping or no mapping.
ObjKeys == {<<"x">>, <<"x", "1">>, <<>>}

ObjVals == {[isObject |-> TRUE, data |-> d] : d \in RawMappings}
             \cup {[isObject |-> FALSE, data |-> EmptyMapping]}

ObjEntries == [key : ObjKeys, val : ObjVals]

Objs ==
  {NoObj} \cup
  {[isObject |-> TRUE, entries |-> es] :
     es \in {e \in UNION {[1..n -> ObjEntries] : n \in 0..MaxKeys} :
               /\ \A i, j \in DOMAIN e : i # j => e[i].key # e[j].key
               /\ \A i \in DOMAIN e : i > 1 => e[i].val.data = EmptyMapping}}

\* is.isObject(v)
isObject(v) == v.isObject

\* Mutant of the checks: only the first key's value is looked at.
InvalidFirstValueOnly(obj) ==
  \/ ~obj.isObject
  \/ Len(obj.entries) = 0
  \/ ~obj.entries[1].val.isObject

\* Lines 179-193: the three checks that throw 'Object is invalid'
Invalid(obj) ==
  \/ ~isObject(obj)
  \/ Len(obj.entries) = 0
  \/ \E i \in DOMAIN obj.entries : ~isObject(obj.entries[i].val)

\* Lines 195-196: keys[0] and obj[keys[0]]
FirstKey(obj) == Str(obj.entries[1].key)

FirstValue(obj) == KfRaw(obj.entries[1].val.data)

\* Prop.fromObject(obj), its result (if any) in the free slot p
fromObject(p, obj) ==
  /\ pc.step = "idle"
  /\ IF Invalid(obj)
     THEN /\ Free(p)
          /\ emitted' = NoEvents
          /\ lastOp' = Op("fromObject", p, Undefined, KfUndefined, obj, "malformed")
          /\ pc' = Returned
          /\ UNCHANGED <<life, name, keyframes, nColls, content, lst, own, released, link>>
     ELSE Construct(p, FirstKey(obj), FirstValue(obj), "fromObject", obj)

\* ------------------------------------------------------------ client code

\* Client code (the parent list, an editor) listens on the Prop, on each
\* of its declared events.
ObservedEvents == PropEvents

\* prop.on(e, listener) for every declared event, unless already done
Observe(p) ==
  /\ pc.step = "idle"
  /\ life[p] # "none"
  /\ own[p] # SetToBag({[on |-> e] : e \in ObservedEvents})
  /\ own' = [own EXCEPT ![p] = SetToBag({[on |-> e] : e \in ObservedEvents})]
  /\ life' = Touch(p)
  /\ emitted' = NoEvents
  /\ lastOp' = Op("observe", p, Undefined, KfUndefined, NoObj, "no")
  /\ pc' = Returned
  /\ UNCHANGED <<name, keyframes, nColls, content, lst, released, link>>

\* The events of the call that reached a listener on Prop p.
Delivered(p) ==
  LET D == {x \in BagToSet(emitted[p]) : BagIn([on |-> x.evt], own[p])}
  IN  [x \in D |-> emitted[p][x]]

\* new Keyframes(data) by client code, to be handed to a Prop later
NewKeyframes(kf) ==
  /\ pc.step = "idle"
  /\ ~IsKeyframes(kf)
  /\ nColls < NumColls
  /\ Allocate(kf)
  /\ emitted' = NoEvents
  /\ lastOp' = Op("newKeyframes", 0, Undefined, kf, NoObj, "no")
  /\ pc' = Returned
  /\ UNCHANGED <<life, name, keyframes, lst, own, released, link>>

\* A mutation of collection c by client code, which makes c raise source
\* event e for the keyframe at time t: a keyframe is added, removed or
\* changed, or the list changes.
Mutate(c, e, t) ==
  /\ pc.step = "idle"
  /\ c \in 1..nColls
  /\ CASE e = "add" ->
            /\ t \notin DOMAIN content[c]
            /\ content' = [content EXCEPT ![c] =
                 [x \in DOMAIN @ \cup {t} |-> CHOOSE v \in KfVals : TRUE]]
       [] e = "remove" ->
            /\ t \in DOMAIN content[c]
            /\ content' = [content EXCEPT ![c] = [x \in DOMAIN @ \ {t} |-> @[x]]]
       [] e = "change:list" ->
            content' = content
       [] OTHER ->
            /\ t \in DOMAIN content[c]
            /\ content' = content
  /\ emitted' = [q \in Props |-> Bubbled(c, q, e, t)]
  /\ lastOp' = [Op("mutate", 0, Undefined, KfInstance(c), NoObj, "no") EXCEPT
                  !.event = e, !.time = t]
  /\ pc' = Returned
  /\ UNCHANGED <<life, name, keyframes, nColls, lst, own, released, link>>

\* ------------------------------------------------------------ behaviours

\* The steps inside a call, and its return.
Steps ==
  \/ Teardown
  \/ Clear
  \/ SetupClear
  \/ SetupAttach
  \/ Notify
  \/ Return

\* One good and one bad name and object.
SomeNames == {Str(<<"x">>), Str(<<"1">>)}

SomeObjs == {[isObject |-> TRUE, entries |-> <<>>],
             [isObject |-> TRUE,
              entries |-> <<[key |-> <<"x">>,
                             val |-> [isObject |-> TRUE, data |-> EmptyMapping]]>>]}

\* Keyframes given as an instance or left out.
InstanceInputs == {KfInstance(c) : c \in 1..nColls} \cup {KfUndefined}

\* Every keyframes input and every mutation: the behaviours of the owned
\* collection and of the listeners on it.
Next ==
  \/ \E p \in Props, val \in SomeNames, kf \in KfInputs : New(p, val, kf)
  \/ \E p \in Props, obj \in SomeObjs : fromObject(p, obj)
  \/ \E p \in Props, val \in SomeNames : SetName(p, val)
  \/ \E p \in Props, kf \in KfInputs : SetKeyframes(p, kf)
  \/ \E p \in Props : setupBubbleEvents(p)
  \/ \E p \in Props : destroy(p)
  \/ \E kf \in KfInputs : NewKeyframes(kf)
  \/ \E c \in Colls, e \in KeyframesEvents, t \in Times : Mutate(c, e, t)
  \/ Adopt(FALSE)
  \/ Steps

Spec == Init /\ [][Next]_vars

\* Every name and every object, with the keyframes left out or null and
\* collections changed in value only: the behaviours of the name and of
\* Prop.fromObject.
NextNames ==
  \/ \E p \in Props, val \in NameInputs, kf \in {KfUndefined, KfNull} : New(p, val, kf)
  \/ \E p \in Props, obj \in Objs : fromObject(p, obj)
  \/ \E p \in Props, val \in NameInputs : SetName(p, val)
  \/ \E p \in Props, kf \in {KfUndefined, KfNull} : SetKeyframes(p, kf)
  \/ \E p \in Props : setupBubbleEvents(p)
  \/ \E p \in Props : destroy(p)
  \/ \E kf \in {KfUndefined, KfNull} : NewKeyframes(kf)
  \/ \E c \in Colls, t \in Times : Mutate(c, "change:value", t)
  \/ Adopt(FALSE)
  \/ Steps

SpecNames == Init /\ [][NextNames]_vars

\* Client code listening on the Props: what reaches it, destroy() included.
NextObserved ==
  \/ \E p \in Props, kf \in InstanceInputs : New(p, Str(<<"x">>), kf)
  \/ \E p \in Props, obj \in SomeObjs : fromObject(p, obj)
  \/ \E p \in Props : SetName(p, Str(<<"x">>))
  \/ \E p \in Props, kf \in InstanceInputs : SetKeyframes(p, kf)
  \/ \E p \in Props : setupBubbleEvents(p)
  \/ \E p \in Props : destroy(p)
  \/ \E p \in Props : Observe(p)
  \/ NewKeyframes(KfUndefined)
  \/ \E c \in Colls, e \in {"add", "remove", "change"}, t \in Times : Mutate(c, e, t)
  \/ Adopt(FALSE)
  \/ Steps

SpecObserved == Init /\ [][NextObserved]_vars

\* The collections given up by a keyframes assignment, remembered; every
\* mutation, of the keyframe at one time key.
NextReplaced ==
  \/ \E p \in Props, kf \in InstanceInputs : New(p, Str(<<"x">>), kf)
  \/ \E p \in Props, obj \in SomeObjs : fromObject(p, obj)
  \/ \E p \in Props : SetName(p, Str(<<"x">>))
  \/ \E p \in Props, kf \in InstanceInputs : SetKeyframes(p, kf)
  \/ \E p \in Props : setupBubbleEvents(p)
  \/ \E p \in Props : destroy(p)
  \/ NewKeyframes(KfUndefined)
  \/ \E c \in Colls, e \in KeyframesEvents : Mutate(c, e, 1)
  \/ Adopt(TRUE)
  \/ Steps

SpecReplaced == Init /\ [][NextReplaced]_vars

\* One Prop, under every name, with the calls that ask and do not change:
\* toObject, isCSSTransform, next, prev, list; the parent list links it.
QueryProps == {1}

\* The property names client code gives: those of the CSS transforms, with
\* and without an axis, and opacity.
Words ==
  LET stems == {<<"r", "o", "t", "a", "t", "i", "o", "n">>,
                <<"s", "k", "e", "w">>, <<"s", "c", "a", "l", "e">>}
  IN  {<<"x">>, <<"y">>, <<"z">>, <<"X">>, opacity} \cup stems
        \cup {Append(w, a) : w \in stems, a \in {"X", "Y", "Z"}}

QueryNames == NameInputs \cup {Str(w) : w \in Words}

OneKeyframe == [t \in {1} |-> CHOOSE v \in KfVals : TRUE]

QueryKfInputs == InstanceInputs \cup {KfRaw(OneKeyframe)}

\* A good object, an empty one and one whose key holds a digit.
QueryObjs == SomeObjs \cup {SingleKey(<<"1">>, OneKeyframe)}

NextQueries ==
  \/ \E p \in QueryProps, val \in QueryNames, kf \in QueryKfInputs : New(p, val, kf)
  \/ \E p \in QueryProps, obj \in QueryObjs : fromObject(p, obj)
  \/ \E p \in QueryProps, val \in QueryNames : SetName(p, val)
  \/ \E p \in QueryProps, kf \in QueryKfInputs : SetKeyframes(p, kf)
  \/ \E p \in QueryProps : setupBubbleEvents(p)
  \/ \E p \in QueryProps : destroy(p)
  \/ \E p \in QueryProps : toObject(p)
  \/ \E p \in QueryProps : isCSSTransform(p)
  \/ \E p \in QueryProps : next(p)
  \/ \E p \in QueryProps : prev(p)
  \/ \E p \in QueryProps : list(p)
  \/ \E p \in QueryProps, l \in Linkages : Link(p, l)
  \/ NewKeyframes(KfUndefined)
  \/ \E c \in Colls : Mutate(c, "add", 1)
  \/ Adopt(FALSE)
  \/ Steps

SpecQueries == Init /\ [][NextQueries]_vars

\* ================================================================ claims

AfterCall(o) == pc.step = "returned" /\ lastOp.op = o

\* ---------------------------------------------------------------- C1
\* C1: assigning to prop.name a value that is not a string or that holds a
\* digit fails with a validation failure, leaves the name as it was and
\* emits no event on the Prop.
C1_InvalidNameRejected ==
  (AfterCall("setName") /\ (lastOp.val.type # "string" \/ HasDigit(lastOp.val.str)))
    => /\ lastOp.threw = "validation"
       /\ name[lastOp.p] = lastOp.oldName
       /\ emitted[lastOp.p] = EmptyBag

C1_Witness ==
  /\ AfterCall("setName")
  /\ lastOp.val = Str(<<"1">>)
  /\ lastOp.threw = "validation"
  /\ name[lastOp.p] = Str(<<"x">>)

\* ---------------------------------------------------------------- C2
\* C2: assigning to prop.name a string without a digit (the empty string
\* and the current name included) succeeds, the name is that string
\* afterwards, and change:name is emitted on the Prop exactly once, with
\* that string.
C2_ValidNameAssigned ==
  (AfterCall("setName") /\ lastOp.val.type = "string" /\ ~HasDigit(lastOp.val.str))
    => /\ lastOp.threw = "no"
       /\ name[lastOp.p] = lastOp.val
       /\ \A x \in BagToSet(emitted[lastOp.p]) :
            x.evt = "change:name" => x = Ev("change:name", lastOp.val, 0)
       /\ CopiesIn(Ev("change:name", lastOp.val, 0), emitted[lastOp.p]) = 1

C2_Witness ==
  /\ AfterCall("setName")
  /\ lastOp.val = Str(<<>>)
  /\ lastOp.threw = "no"
  /\ name[lastOp.p] = Str(<<>>)

\* ---------------------------------------------------------------- C3
\* C3: the name of every constructed Prop is a non-empty string without a
\* digit.
C3_NameNonEmptyNoDigit ==
  \A p \in Props :
    life[p] # "none" =>
      /\ name[p].type = "string"
      /\ name[p].str # <<>>
      /\ ~HasDigit(name[p].str)

\* ---------------------------------------------------------------- C4
\* The bubbled event the mapping table gives for each source event.
ClaimedBubble(e) ==
  CASE e = "change:list"  -> "change:keyframes:list"
    [] e = "change"       -> "change:keyframe"
    [] e = "change:time"  -> "change:keyframe:time"
    [] e = "change:value" -> "change:keyframe:value"
    [] e = "change:ease"  -> "change:keyframe:ease"
    [] e = "add"          -> "add:keyframe"
    [] e = "remove"       -> "remove:keyframe"

\* C4: once prop.keyframes has been replaced by a different collection, a
\* mutation of the old collection triggers no event on the Prop, and a
\* mutation of the new one (while the Prop owns it and is not destroyed)
\* triggers the bubbled event that corresponds.
C4_OldSilentNewBubbles ==
  AfterCall("mutate") =>
    \A p \in Props :
      /\ released[p] = lastOp.kf.inst => emitted[p] = EmptyBag
      /\ (released[p] # NoColl /\ keyframes[p] = lastOp.kf.inst /\ life[p] = "live")
           => emitted[p] = SetToBag({Ev(ClaimedBubble(lastOp.event), Null, lastOp.time)})

\* The old collection of one Prop, now owned by another, is mutated: the
\* other Prop hears of it, the first does not.
C4_Witness ==
  /\ AfterCall("mutate")
  /\ \E p, q \in Props :
       /\ life[p] = "live"
       /\ released[p] = lastOp.kf.inst
       /\ emitted[p] = EmptyBag
       /\ keyframes[q] = lastOp.kf.inst
       /\ emitted[q] # EmptyBag

\* ---------------------------------------------------------------- C5
\* C5: on a Prop that was not destroyed, a source event raised by the owned
\* collection is emitted again on the Prop under its mapped name, and
\* under no other.
C5_BubbledUnderMappedName ==
  AfterCall("mutate") =>
    \A p \in Props :
      (life[p] = "live" /\ keyframes[p] = lastOp.kf.inst)
        => emitted[p] = SetToBag({Ev(ClaimedBubble(lastOp.event), Null, lastOp.time)})

C5_Witness ==
  /\ AfterCall("mutate")
  /\ lastOp.event = "change:time"
  /\ \E p \in Props :
       /\ life[p] = "live"
       /\ keyframes[p] = lastOp.kf.inst
       /\ emitted[p] = SetToBag({Ev("change:keyframe:time", Null, lastOp.time)})

\* ---------------------------------------------------------------- C6
\* The listeners of Prop p on collection c for source event e.
ListenerCount(c, p, e) ==
  BagCardinality([l \in {x \in BagToSet(lst[c][p]) : x.on = e} |-> lst[c][p][l]])

\* C6: whatever keyframes assignments and setupBubbleEvents calls were
\* made on a Prop that was not destroyed, between calls its owned
\* collection carries one listener of the Prop per source event, and a
\* source event gives one bubbled event on the Prop.
C6_OneListenerPerEvent ==
  \A p \in Props :
    (life[p] = "live" /\ pc.p # p) =>
      /\ \A e \in KeyframesEvents : ListenerCount(keyframes[p], p, e) = 1
      /\ (AfterCall("mutate") /\ lastOp.kf.inst = keyframes[p])
           => BagCardinality(emitted[p]) = 1

C6_Witness ==
  /\ AfterCall("setupBubbleEvents")
  /\ life[lastOp.p] = "live"
  /\ \A e \in KeyframesEvents : ListenerCount(keyframes[lastOp.p], lastOp.p, e) = 1

\* ---------------------------------------------------------------- C7
\* The collection a keyframes assignment ends up with: the instance given,
\* or the one made from what was given (the newest).
Target(kf) == IF kf.kind = "instance" THEN kf.inst ELSE nColls

\* C7: at every step a Prop has listeners on one collection at most, the
\* one it owns; inside a keyframes assignment it has none anywhere from
\* the removal of the old ones until the new ones are attached; when the
\* assignment has returned they are on the collection prop.keyframes gives.
C7_ListenersOnOneCollection ==
  /\ \A p \in Props, c \in Colls : lst[c][p] # EmptyBag => c = keyframes[p]
  /\ (pc.notify /\ pc.step \in {"clear", "adopt", "setup"})
       => \A c \in Colls : lst[c][pc.p] = EmptyBag
  /\ AfterCall("setKeyframes")
       => /\ keyframes[lastOp.p] = Target(lastOp.kf)
          /\ lst[keyframes[lastOp.p]][lastOp.p] # EmptyBag

\* Inside an assignment, the old collection still owned and a different one
\* about to be adopted.
C7_Witness ==
  /\ pc.step = "adopt"
  /\ ~pc.ctor
  /\ keyframes[pc.p] # NoColl
  /\ keyframes[pc.p] # pc.new
  /\ \A c \in Colls : lst[c][pc.p] = EmptyBag

\* ---------------------------------------------------------------- C8
\* C8: after prop.destroy() (and until the Prop is called again) the Prop
\* has no listener on the collection it owns, there is no listener on the
\* Prop for any of its declared events, and a mutation of the collection
\* delivers no event on the Prop.
C8_DestroyedIsSilent ==
  \A p \in Props :
    life[p] = "destroyed" =>
      /\ lst[keyframes[p]][p] = EmptyBag
      /\ \A e \in PropEvents : ~BagIn([on |-> e], own[p])
      /\ emitted[p] = EmptyBag
      /\ Delivered(p) = EmptyBag

\* The collection of a destroyed Prop gets a keyframe; another Prop that
\* owns it too, and is listened on, has the event delivered.
C8_Witness ==
  /\ AfterCall("mutate")
  /\ lastOp.event = "add"
  /\ \E p, q \in Props :
       /\ life[p] = "destroyed"
       /\ keyframes[p] = lastOp.kf.inst
       /\ keyframes[q] = lastOp.kf.inst
       /\ Delivered(q) # EmptyBag

\* ---------------------------------------------------------------- C9
\* C9: prop.keyframes of a constructed Prop is a Keyframes instance, never
\* null, whatever was assigned (an instance, raw data, null, undefined);
\* a Prop constructed without keyframe data has an empty collection.
C9_KeyframesNeverNull ==
  /\ \A p \in Props : life[p] # "none" => keyframes[p] \in 1..nColls
  /\ (AfterCall("new") /\ lastOp.threw = "no" /\ lastOp.kf.kind \in {"undefined", "null"})
       => content[keyframes[lastOp.p]] = EmptyMapping

C9_Witness ==
  /\ AfterCall("setKeyframes")
  /\ lastOp.kf = KfNull
  /\ keyframes[lastOp.p] \in 1..nColls
  /\ keyframes[lastOp.p] # lastOp.oldKeyframes

\* ---------------------------------------------------------------- C10
Malformed(obj) ==
  \/ ~obj.isObject
  \/ obj.entries = <<>>
  \/ \E i \in DOMAIN obj.entries : ~obj.entries[i].val.isObject

\* One Prop was built from the first key and its value.
Built ==
  /\ lastOp.threw = "no"
  /\ life[lastOp.p] = "live"
  /\ name[lastOp.p] = Str(lastOp.obj.entries[1].key)
  /\ keyframes[lastOp.p] \in 1..nColls
  /\ content[keyframes[lastOp.p]] = lastOp.obj.entries[1].val.data

NoPropWith(failure) ==
  /\ lastOp.threw = failure
  /\ life[lastOp.p] = "none"
  /\ keyframes[lastOp.p] = NoColl

\* C10 as stated: Prop.fromObject fails with a malformed-input failure and
\* creates no Prop when its argument is no mapping, is empty or has a value
\* that is no mapping; otherwise it builds one Prop from the first key.
C10_FromObjectAsStated ==
  AfterCall("fromObject") =>
    IF Malformed(lastOp.obj) THEN NoPropWith("malformed") ELSE Built

\* C10 as amended: ... otherwise it constructs a Prop from the first key
\* and its value, which builds the Prop when that key is a name the
\* validators of the name accept and is not empty, and fails with a
\* validation failure, creating no Prop, when the key holds a digit or is
\* empty.
C10_FromObject ==
  AfterCall("fromObject") =>
    IF Malformed(lastOp.obj) THEN NoPropWith("malformed")
    ELSE IF lastOp.obj.entries[1].key # <<>> /\ ~HasDigit(lastOp.obj.entries[1].key)
         THEN Built
         ELSE NoPropWith("validation")

\* The second key's value is no mapping, the first key's is.
C10_Witness ==
  /\ AfterCall("fromObject")
  /\ Len(lastOp.obj.entries) = 2
  /\ lastOp.obj.entries[1].val.isObject
  /\ ~lastOp.obj.entries[2].val.isObject
  /\ NoPropWith("malformed")

\* ---------------------------------------------------------------- C11
\* The single-key mappings whose value is a mapping of raw keyframe data.
IsSingleKeyMapping(obj) ==
  /\ obj.isObject
  /\ Len(obj.entries) = 1
  /\ obj.entries[1].val.isObject

C12_ToObjectIsPure ==
  /\ AfterCall("toObject") =>
       /\ lastOp.ret.kind = "object"
       /\ lastOp.ret.obj =
            SingleKey(name[lastOp.p].str, content[keyframes[lastOp.p]])
       /\ Snapshot = lastOp.pre
       /\ emitted = NoEvents
  /\ (/\ AfterCall("new")
      /\ lastOp.threw = "no"
      /\ lastOp.val = Str(<<"x">>)
      /\ lastOp.kf = KfUndefined)
       => ToObject(lastOp.p) = SingleKey(<<"x">>, EmptyMapping)

\* toObject() of a destroyed Prop whose collection holds a keyframe
C12_Witness ==
  /\ AfterCall("toObject")
  /\ life[lastOp.p] = "destroyed"
  /\ lastOp.ret.obj = SingleKey(<<"x">>, OneKeyframe)
  /\ content[keyframes[lastOp.p]] = OneKeyframe

\* ---------------------------------------------------------------- C13
\* C13: in every reachable state, whatever Props were constructed and
\* whatever was assigned to their keyframes, a Keyframes instance is the
\* owned collection of one Prop at most.
C13_ExclusiveOwnership ==
  \A p, q \in Props :
    (p # q /\ keyframes[p] # NoColl) => keyframes[p] # keyframes[q]

\* ---------------------------------------------------------------- C14
\* The call just returned assigned to prop.keyframes the instance the Prop
\* owned already.
SelfAssigned ==
  /\ AfterCall("setKeyframes")
  /\ IsKeyframes(lastOp.kf)
  /\ lastOp.kf.inst = lastOp.oldKeyframes

\* What one such assignment leaves: the Prop owns instance c, emptied, with
\* the listeners of the table on it, one of each.
AssignedOnce(st, p, c) ==
  /\ st.keyframes[p] = c
  /\ st.content[c] = EmptyMapping
  /\ st.lst[c][p] = SetToBag(BubbleTable)

\* C14: assigning to prop.keyframes the instance the Prop owns already
\* runs the teardown, the adoption and the setup again: afterwards the Prop
\* owns the same instance with one listener per source event, none twice
\* and none left from before; and the assignment made again, on the state
\* the first one left, changes nothing any more.
C14_SelfAssignIdempotent ==
  SelfAssigned =>
    /\ keyframes[lastOp.p] = lastOp.kf.inst
    /\ \A e \in KeyframesEvents : ListenerCount(lastOp.kf.inst, lastOp.p, e) = 1
    /\ AssignedOnce(Snapshot, lastOp.p, lastOp.kf.inst)
    /\ AssignedOnce(lastOp.pre, lastOp.p, lastOp.kf.inst) => Snapshot = lastOp.pre

\* The assignment made again on the state the first one left
C14_Witness ==
  /\ SelfAssigned
  /\ AssignedOnce(lastOp.pre, lastOp.p, lastOp.kf.inst)
  /\ Snapshot = lastOp.pre

\* ---------------------------------------------------------------- C15
\* The twelve names of the claim: x, y, z, rotation, rotationZ, rotationX,
\* rotationY, skewX, skewY, scale, scaleX, scaleY.
ClaimedTransforms ==
  LET rotation == <<"r", "o", "t", "a", "t", "i", "o", "n">>
      skew     == <<"s", "k", "e", "w">>
      scale    == <<"s", "c", "a", "l", "e">>
  IN  {<<"x">>, <<"y">>, <<"z">>, rotation, scale}
        \cup {Append(rotation, a) : a \in {"X", "Y", "Z"}}
        \cup {Append(skew, a) : a \in {"X", "Y"}}
        \cup {Append(scale, a) : a \in {"X", "Y"}}

\* C15: isCSSTransform() returns true exactly when the name of the Prop is
\* one of the twelve names (true for "scaleX", false for "opacity"); the
\* call changes no state and emits no event.
C15_TransformNames ==
  AfterCall("isCSSTransform") =>
    /\ lastOp.ret.kind = "boolean"
    /\ lastOp.ret.flag <=> (name[lastOp.p].str \in ClaimedTransforms)
    /\ name[lastOp.p].str = <<"s", "c", "a", "l", "e", "X">> => lastOp.ret.flag
    /\ name[lastOp.p].str = opacity => ~lastOp.ret.flag
    /\ Snapshot = lastOp.pre
    /\ emitted = NoEvents

C15_Witness ==
  /\ AfterCall("isCSSTransform")
  /\ name[lastOp.p] = Str(<<"s", "c", "a", "l", "e", "X">>)
  /\ lastOp.ret.flag

\* ---------------------------------------------------------------- C16
\* The events of the wrapper among those emitted on Prop p.
WrapperEvents(p) ==
  {x \in BagToSet(emitted[p]) : x.evt \in {"change", "change:keyframes"}}

\* C16: a keyframes assignment emits `change` and `change:keyframes` on
\* the Prop once each, and not before the new collection is adopted and
\* carries the listeners of the Prop: when they are emitted, and when their
\* listeners run, prop.keyframes is the new collection (the events carry
\* what prop.keyframes gives at that moment), never the old one and never
\* one without listeners.
C16_NotifiedAfterAdoption ==
  /\ (pc.notify /\ ~pc.ctor /\ pc.step # "returned")
       => WrapperEvents(pc.p) = {}
  /\ (pc.notify /\ pc.step = "notify")
       => /\ keyframes[pc.p] = pc.new
          /\ \A e \in KeyframesEvents : ListenerCount(pc.new, pc.p, e) = 1
  /\ AfterCall("setKeyframes")
       => /\ WrapperEvents(lastOp.p) =
               {Ev("change", Null, Target(lastOp.kf)),
                Ev("change:keyframes", Null, Target(lastOp.kf))}
          /\ \A x \in WrapperEvents(lastOp.p) : CopiesIn(x, emitted[lastOp.p]) = 1
          /\ keyframes[lastOp.p] = Target(lastOp.kf)
          /\ \A e \in KeyframesEvents :
               ListenerCount(keyframes[lastOp.p], lastOp.p, e) = 1

\* A listener on the Prop has `change:keyframes` delivered, with a new
\* collection in place of the old one.
C16_Witness ==
  /\ AfterCall("setKeyframes")
  /\ lastOp.oldKeyframes # NoColl
  /\ keyframes[lastOp.p] # lastOp.oldKeyframes
  /\ BagIn(Ev("change:keyframes", Null, keyframes[lastOp.p]), Delivered(lastOp.p))

\* ---------------------------------------------------------------- C17
\* The calls of the Prop itself.
PropOps ==
  {"new", "fromObject", "setName", "setKeyframes", "setupBubbleEvents",
   "toObject", "isCSSTransform", "destroy", "next", "prev", "list"}

\* C17: no call of the Prop (construction, name or keyframes assignment,
\* setupBubbleEvents, toObject, isCSSTransform, destroy, next, prev, list)
\* changes _next, _prev or _list, at any of its steps: next(), prev() and
\* list give after the call what they gave before it, which is what the
\* parent list wrote last.
C17_LinkageUntouched ==
  /\ lastOp.op \in PropOps => link = lastOp.pre.link
  /\ AfterCall("next") => lastOp.ret.ref = lastOp.pre.link[lastOp.p].next
  /\ AfterCall("prev") => lastOp.ret.ref = lastOp.pre.link[lastOp.p].prev
  /\ AfterCall("list") => lastOp.ret.ref = lastOp.pre.link[lastOp.p].list

\* destroy() of a Prop the parent list has linked
C17_Witness ==
  /\ AfterCall("destroy")
  /\ link[lastOp.p] = [next |-> "prop", prev |-> "null", list |-> "props"]

\* ---------------------------------------------------------------- C18
\* C18: in a keyframes assignment the collection owned so far is cleared
\* when the listeners of the Prop on it are gone, so no removal made by
\* that clear is bubbled: at every step of the assignment the events
\* emitted on the Prop are `change` and `change:keyframes` alone, and when
\* it has returned they are those two.
C18_ClearIsNotBubbled ==
  /\ (pc.notify /\ pc.step = "clear")
       => lst[keyframes[pc.p]][pc.p] = EmptyBag
  /\ lastOp.op = "setKeyframes"
       => \A x \in BagToSet(emitted[lastOp.p]) :
            x.evt \in {"change", "change:keyframes"}
  /\ AfterCall("setKeyframes")
       => emitted[lastOp.p] =
            SetToBag({Ev("change", Null, keyframes[lastOp.p]),
                      Ev("change:keyframes", Null, keyframes[lastOp.p])})

\* The collection replaced held a keyframe and carried the listeners of
\* the Prop.
C18_Witness ==
  /\ AfterCall("setKeyframes")
  /\ lastOp.oldKeyframes # NoColl
  /\ lastOp.pre.content[lastOp.oldKeyframes] # EmptyMapping
  /\ lastOp.pre.lst[lastOp.oldKeyframes][lastOp.p] = SetToBag(BubbleTable)
  /\ content[lastOp.oldKeyframes] = EmptyMapping
  /\ BagCardinality(emitted[lastOp.p]) = 2

\* ---------------------------------------------------------------- C19
\* C19: when a keyframes assignment made on a Prop that owned a collection
\* has returned, the collection owned before is empty; so the assignment of
\* the owned instance to itself leaves the Prop with an empty collection,
\* and toObject() gives { [name]: {} } whatever the collection held.
C19_OldCollectionEmptied ==
  /\ (AfterCall("setKeyframes") /\ lastOp.oldKeyframes # NoColl)
       => content[lastOp.oldKeyframes] = EmptyMapping
  /\ SelfAssigned
       => /\ content[keyframes[lastOp.p]] = EmptyMapping
          /\ ToObject(lastOp.p) = SingleKey(name[lastOp.p].str, EmptyMapping)

\* prop.keyframes = prop.keyframes on a collection that held a keyframe
C19_Witness ==
  /\ SelfAssigned
  /\ lastOp.pre.content[lastOp.kf.inst] # EmptyMapping
  /\ ToObject(lastOp.p) = SingleKey(<<"x">>, EmptyMapping)

\* ---------------------------------------------------------------- C20
\* The construction just returned was given a name that is missing, empty,
\* no string or holds a digit (Prop.fromObject gives the first key).
BadNameGiven ==
  /\ AfterCall("new") \/ (AfterCall("fromObject") /\ lastOp.threw # "malformed")
  /\ \/ lastOp.val.type # "string"
     \/ lastOp.val.str = <<>>
     \/ HasDigit(lastOp.val.str)

\* C20: new Prop(name, data) with such a name, and so Prop.fromObject with
\* a key that holds a digit, fails with a validation failure before the
\* keyframes are adopted: there is no Prop, no event, and a collection
\* instance given as data has no listener more and no keyframe less than
\* before.
C20_BadNameBuildsNothing ==
  BadNameGiven =>
    /\ lastOp.threw = "validation"
    /\ life[lastOp.p] = "none"
    /\ keyframes[lastOp.p] = NoColl
    /\ \A c \in Colls : lst[c][lastOp.p] = EmptyBag
    /\ Snapshot = lastOp.pre
    /\ emitted = NoEvents

\* new Prop('', keyframes) with a Keyframes instance
C20_Witness ==
  /\ AfterCall("new")
  /\ lastOp.val = Str(<<>>)
  /\ IsKeyframes(lastOp.kf)
  /\ lastOp.threw = "validation"
  /\ \A p \in Props : lst[lastOp.kf.inst][p] = EmptyBag

====
